---- MODULE Spec2Model ----
(***************************************************************************)
(* Model of RADOSGWCollector.Collect (radosgw_exporter).                   *)
(*                                                                         *)
(* One pass of Collect is a blocking sequence of admin-API round trips:    *)
(* GetUsage, GetUsers, then GetUser and ListUsersBucketsWithStat per uid.  *)
(* Each action below is "the response of the pending round trip arrives    *)
(* and Collect runs up to its next round trip (or returns, running its     *)
(* deferred functions)".  Several passes may be in flight at once, one per *)
(* scrape request; every pass has its own channel ch and its own locals.   *)
(*                                                                         *)
(* Optional upstream fields (Go pointers) are sequences: <<>> is nil and   *)
(* <<v>> is a pointer to v.  Counter values are small naturals, for which  *)
(* the float64 conversions of the source are exact; quota sizes are small *)
(* enough for MaxSizeKb*1024 not to overflow.  Logging is not modelled.    *)
(***************************************************************************)
EXTENDS Integers, Sequences, FiniteSets, TLC

VARIABLES pc, up, usageAggr, uids, idx, ch, calls

vars == <<pc, up, usageAggr, uids, idx, ch, calls>>

\* ------------------------------------------------------------------------
\* Bounds of the model and sample upstream data

\* Bound on the size of a usage response (its number of category records).
MaxUsageRecs == 2

\* Bound on the number of identifiers returned by the user listing.
MaxUids == 2

\* Concurrent scrape requests (each is one invocation of Collect).
Passes == {"p1", "p2"}

Users == {"alice", "bob", "carol"}

UsageUsers == {"alice", "bob"}

UsageBucketNames == {"", "photos"}

\* Category records of the usage response: Category, Ops, SuccessfulOps,
\* BytesSent, BytesReceived.
CategoryRecs ==
    { [Category |-> "get_obj", Ops |-> 3, SuccessfulOps |-> 2,
       BytesSent |-> 100, BytesReceived |-> 0],
      [Category |-> "get_obj", Ops |-> 5, SuccessfulOps |-> 5,
       BytesSent |-> 200, BytesReceived |-> 7],
      [Category |-> "put_obj", Ops |-> 1, SuccessfulOps |-> 0,
       BytesSent |-> 0, BytesReceived |-> 50] }

\* Elapsed seconds of a pass as read from the wall clock, on either side of
\* the 10 second warning threshold.
Durations == {0, 11}

\* ------------------------------------------------------------------------
\* Configuration and metric descriptors

store == "us-east-1"

OpsName == "radosgw_usage_ops_total"
SuccessfulOpsName == "radosgw_usage_successful_ops_total"
BytesSentName == "radosgw_usage_sent_bytes_total"
BytesReceivedName == "radosgw_usage_received_bytes_total"
BucketUsageBytesName == "radosgw_usage_bucket_bytes"
BucketUsageObjectsName == "radosgw_usage_bucket_objects"
UserTotalBytesName == "radosgw_usage_user_total_bytes"
UserTotalObjectsName == "radosgw_usage_user_total_objects"
UserQuotaEnabledName == "radosgw_usage_user_quota_enabled"
UserQuotaMaxSizeBytesName == "radosgw_usage_user_quota_size_bytes"
UserQuotaMaxObjectsName == "radosgw_usage_user_quota_size_objects"
UserBucketQuotaEnabledName == "radosgw_usage_user_bucket_quota_enabled"
UserBucketQuotaMaxSizeBytesName == "radosgw_usage_user_bucket_quota_size_bytes"
UserBucketQuotaMaxObjectsName == "radosgw_usage_user_bucket_quota_size_objects"
ScrapeDurationSecondsName == "radosgw_usage_scrape_duration_seconds"
UpName == "radosgw_up"

\* prometheus.MustNewConstMetric(desc, _, value, labels...)
Metric(name, value, labels) == [name |-> name, labels |-> labels, value |-> value]

\* ------------------------------------------------------------------------
\* Usage aggregation (pure part of Collect)

EmptyAggr == [k \in {} |-> 0]

ZeroValues == [ops |-> 0, successfulOps |-> 0, bytesSent |-> 0, bytesReceived |-> 0]

\* Faulty variant: the aggregation map is shared between passes instead of
\* being allocated by each pass.
SharedUsageAggr(p) == usageAggr[CHOOSE q \in Passes : q # p]

\* the map a pass allocates for its aggregation
MakeUsageAggr(p) == EmptyAggr

\* Faulty variant: the empty bucket name is kept.
RawBucketName(bucket) == bucket.Bucket

\* bucketName := bucket.Bucket; if bucketName == "" { bucketName = "bucket_root" }
BucketNameOf(bucket) == IF bucket.Bucket = "" THEN "bucket_root" ELSE bucket.Bucket

UsageMetricKey(bucketName, user, cat) ==
    [bucket |-> bucketName, owner |-> user, category |-> cat.Category, store |-> store]

\* Faulty variant: the counters of a key are overwritten, not added to.
SetCategory(v, cat) ==
    [ops           |-> cat.Ops,
     successfulOps |-> cat.SuccessfulOps,
     bytesSent     |-> cat.BytesSent,
     bytesReceived |-> cat.BytesReceived]

\* v.ops += ...; v.successfulOps += ...; v.bytesSent += ...; v.bytesReceived += ...
AddCategory(v, cat) ==
    [ops           |-> v.ops + cat.Ops,
     successfulOps |-> v.successfulOps + cat.SuccessfulOps,
     bytesSent     |-> v.bytesSent + cat.BytesSent,
     bytesReceived |-> v.bytesReceived + cat.BytesReceived]

RECURSIVE AggrCategories(_, _, _, _)
AggrCategories(aggr, user, bucketName, cats) ==
    IF cats = <<>> THEN aggr
    ELSE LET cat == Head(cats)
             key == UsageMetricKey(bucketName, user, cat)
             cur == IF key \in DOMAIN aggr THEN aggr ELSE aggr @@ (key :> ZeroValues)
         IN  AggrCategories([cur EXCEPT ![key] = AddCategory(@, cat)],
                            user, bucketName, Tail(cats))

RECURSIVE AggrBuckets(_, _, _)
AggrBuckets(aggr, user, buckets) ==
    IF buckets = <<>> THEN aggr
    ELSE AggrBuckets(AggrCategories(aggr, user, BucketNameOf(Head(buckets)),
                                    Head(buckets).Categories),
                     user, Tail(buckets))

RECURSIVE AggrEntries(_, _)
AggrEntries(aggr, entries) ==
    IF entries = <<>> THEN aggr
    ELSE AggrEntries(AggrBuckets(aggr, Head(entries).User, Head(entries).Buckets),
                     Tail(entries))

KeyLabels(key) == <<key.bucket, key.owner, key.category, key.store>>

\* the four sends of one iteration of the emission loop
UsageMetricsOf(key, vals) ==
    << Metric(OpsName, vals.ops, KeyLabels(key)),
       Metric(SuccessfulOpsName, vals.successfulOps, KeyLabels(key)),
       Metric(BytesSentName, vals.bytesSent, KeyLabels(key)),
       Metric(BytesReceivedName, vals.bytesReceived, KeyLabels(key)) >>

\* Go iterates a map in an unspecified order: every order of the keys
KeyOrders(aggr) ==
    { o \in [1..Cardinality(DOMAIN aggr) -> DOMAIN aggr] :
        \A a, b \in 1..Cardinality(DOMAIN aggr) : a # b => o[a] # o[b] }

RECURSIVE EmitUsage(_, _)
EmitUsage(aggr, order) ==
    IF order = <<>> THEN <<>>
    ELSE UsageMetricsOf(Head(order), aggr[Head(order)]) \o EmitUsage(aggr, Tail(order))

\* ------------------------------------------------------------------------
\* Projection of user and bucket records (pure part of Collect)

\* Faulty variant: emission decided by the value (a zero is not emitted).
EmitIfNonZero(ptr, name, value, labels) ==
    IF ptr # <<>> /\ value # 0 THEN << Metric(name, value, labels) >> ELSE <<>>

\* if ptr != nil { ch <- metric(value(*ptr)) }
EmitIfSet(ptr, name, value, labels) ==
    IF ptr # <<>> THEN << Metric(name, value, labels) >> ELSE <<>>

BoolValue(ptr) == IF ptr # <<>> /\ ptr[1] THEN 1 ELSE 0

NumValue(ptr) == IF ptr # <<>> THEN ptr[1] ELSE 0

UserLabels(user) == <<user.ID, store>>

UserMetrics(user) ==
    EmitIfSet(user.Stat.NumObjects, UserTotalObjectsName,
              NumValue(user.Stat.NumObjects), UserLabels(user))
    \o EmitIfSet(user.Stat.Size, UserTotalBytesName,
              NumValue(user.Stat.Size), UserLabels(user))
    \o EmitIfSet(user.UserQuota.Enabled, UserQuotaEnabledName,
              BoolValue(user.UserQuota.Enabled), UserLabels(user))
    \o EmitIfSet(user.UserQuota.MaxSizeKb, UserQuotaMaxSizeBytesName,
              NumValue(user.UserQuota.MaxSizeKb) * 1024, UserLabels(user))
    \o EmitIfSet(user.UserQuota.MaxObjects, UserQuotaMaxObjectsName,
              NumValue(user.UserQuota.MaxObjects), UserLabels(user))
    \o EmitIfSet(user.BucketQuota.Enabled, UserBucketQuotaEnabledName,
              BoolValue(user.BucketQuota.Enabled), UserLabels(user))
    \o EmitIfSet(user.BucketQuota.MaxSizeKb, UserBucketQuotaMaxSizeBytesName,
              NumValue(user.BucketQuota.MaxSizeKb) * 1024, UserLabels(user))
    \o EmitIfSet(user.BucketQuota.MaxObjects, UserBucketQuotaMaxObjectsName,
              NumValue(user.BucketQuota.MaxObjects), UserLabels(user))

BucketLabels(b) == <<b.Bucket, b.Owner, "bucket_total", store>>

BucketMetricsOf(b) ==
    EmitIfSet(b.Usage.RgwMain.NumObjects, BucketUsageObjectsName,
              NumValue(b.Usage.RgwMain.NumObjects), BucketLabels(b))
    \o EmitIfSet(b.Usage.RgwMain.SizeActual, BucketUsageBytesName,
              NumValue(b.Usage.RgwMain.SizeActual), BucketLabels(b))

RECURSIVE BucketMetrics(_)
BucketMetrics(buckets) ==
    IF buckets = <<>> THEN <<>>
    ELSE BucketMetricsOf(Head(buckets)) \o BucketMetrics(Tail(buckets))

\* Faulty variant: the health value is read when the function is deferred
\* (always 1), not when Collect returns.
DeferredUpAtDeferTime(upv, duration) ==
    << Metric(UpName, 1, <<>>),
       Metric(ScrapeDurationSecondsName, duration, <<>>) >>

\* Faulty variant: an aborted pass sends no duration.
DeferredNoDurationOnFailure(upv, duration) ==
    IF upv = 0 THEN << Metric(UpName, upv, <<>>) >>
    ELSE << Metric(UpName, upv, <<>>),
            Metric(ScrapeDurationSecondsName, duration, <<>>) >>

\* The two deferred functions, run last-in first-out when Collect returns:
\* the health gauge, then the scrape duration.
Deferred(upv, duration) ==
    << Metric(UpName, upv, <<>>),
       Metric(ScrapeDurationSecondsName, duration, <<>>) >>

\* ------------------------------------------------------------------------
\* Upstream responses (inputs of a pass)

\* Usage responses of a given size: sequences of entries, each with a user
\* and a sequence of bucket records, each with a name and a sequence of
\* category records.  The size is the number of category records, an entry
\* without buckets and a bucket record without categories counting as one.
CatSeqs(n) == [1..n -> CategoryRecs]

BucketsOfSize(s) ==
    { [Bucket |-> b, Categories |-> cs] :
        b \in UsageBucketNames,
        cs \in CatSeqs(s) \cup (IF s = 1 THEN { <<>> } ELSE {}) }

RECURSIVE BucketSeqs(_)
BucketSeqs(n) ==
    IF n = 0 THEN { <<>> }
    ELSE UNION { { <<b>> \o rest : b \in BucketsOfSize(s), rest \in BucketSeqs(n - s) } :
                 s \in 1..n }

EntriesOfSize(s) ==
    { [User |-> u, Buckets |-> bs] :
        u \in UsageUsers,
        bs \in BucketSeqs(s) \cup (IF s = 1 THEN { <<>> } ELSE {}) }

RECURSIVE EntrySeqs(_)
EntrySeqs(n) ==
    IF n = 0 THEN { <<>> }
    ELSE UNION { { <<e>> \o rest : e \in EntriesOfSize(s), rest \in EntrySeqs(n - s) } :
                 s \in 1..n }

UsageUpTo(max) == UNION { EntrySeqs(n) : n \in 0..max }

UsageFew ==
    { <<>>,
      << [User |-> "alice",
          Buckets |-> << [Bucket |-> "photos",
                          Categories |-> << [Category |-> "get_obj", Ops |-> 3,
                                             SuccessfulOps |-> 2, BytesSent |-> 100,
                                             BytesReceived |-> 0] >>] >>] >> }

\* Listings: duplicate-free sequences of user identifiers
UidSeqs ==
    UNION { { s \in [1..n -> Users] : \A a, b \in 1..n : a # b => s[a] # s[b] } :
            n \in 0..MaxUids }

UidFew == { <<>>, <<"alice">> }

\* User detail, without the identifier.  Over the profiles every optional
\* field is absent, present with a zero value and present with a non-zero
\* value, and present next to absent neighbours.
NoQuota == [Enabled |-> <<>>, MaxSizeKb |-> <<>>, MaxObjects |-> <<>>]

Profiles ==
    { [Stat |-> [NumObjects |-> <<>>, Size |-> <<>>],
       UserQuota |-> NoQuota, BucketQuota |-> NoQuota],
      [Stat |-> [NumObjects |-> <<0>>, Size |-> <<0>>],
       UserQuota |-> [Enabled |-> <<FALSE>>, MaxSizeKb |-> <<0>>, MaxObjects |-> <<0>>],
       BucketQuota |-> [Enabled |-> <<FALSE>>, MaxSizeKb |-> <<0>>, MaxObjects |-> <<0>>]],
      [Stat |-> [NumObjects |-> <<5>>, Size |-> <<>>],
       UserQuota |-> [Enabled |-> <<TRUE>>, MaxSizeKb |-> <<>>, MaxObjects |-> <<100>>],
       BucketQuota |-> [Enabled |-> <<>>, MaxSizeKb |-> <<10>>, MaxObjects |-> <<>>]],
      [Stat |-> [NumObjects |-> <<>>, Size |-> <<2048>>],
       UserQuota |-> [Enabled |-> <<>>, MaxSizeKb |-> <<10>>, MaxObjects |-> <<>>],
       BucketQuota |-> [Enabled |-> <<TRUE>>, MaxSizeKb |-> <<>>, MaxObjects |-> <<7>>]] }

ProfileFew ==
    { [Stat |-> [NumObjects |-> <<5>>, Size |-> <<>>],
       UserQuota |-> [Enabled |-> <<TRUE>>, MaxSizeKb |-> <<>>, MaxObjects |-> <<100>>],
       BucketQuota |-> [Enabled |-> <<>>, MaxSizeKb |-> <<10>>, MaxObjects |-> <<>>]] }

\* Bucket lists of a user, without the owner.
BucketShapes ==
    { <<>>,
      << [Bucket |-> "photos", NumObjects |-> <<>>, SizeActual |-> <<0>>] >>,
      << [Bucket |-> "photos", NumObjects |-> <<3>>, SizeActual |-> <<>>] >>,
      << [Bucket |-> "photos", NumObjects |-> <<0>>, SizeActual |-> <<4096>>],
         [Bucket |-> "logs", NumObjects |-> <<>>, SizeActual |-> <<>>] >> }

BucketShapeFew ==
    { << [Bucket |-> "photos", NumObjects |-> <<3>>, SizeActual |-> <<4096>>] >> }

\* admin.User as returned by GetUser for uid
UserRec(uid, prof) ==
    [ID |-> uid, Stat |-> prof.Stat, UserQuota |-> prof.UserQuota,
     BucketQuota |-> prof.BucketQuota]

\* []admin.Bucket as returned by ListUsersBucketsWithStat for uid
BucketRecs(uid, shapes) ==
    [k \in 1..Len(shapes) |->
        [Bucket |-> shapes[k].Bucket, Owner |-> uid,
         Usage |-> [RgwMain |-> [NumObjects |-> shapes[k].NumObjects,
                                 SizeActual |-> shapes[k].SizeActual]]]]

\* Input sets of a specification
UsageOf(in) == IF in = "usage" THEN UsageUpTo(MaxUsageRecs) ELSE UsageFew

UidsOf(in) == IF in = "walk" THEN UidSeqs ELSE UidFew

ProfilesOf(in) == IF in = "walk" THEN Profiles ELSE ProfileFew

BucketsOf(in) == IF in = "walk" THEN BucketShapes ELSE BucketShapeFew

DurationsOf(in) == IF in = "usage" THEN {0} ELSE Durations

\* ------------------------------------------------------------------------
\* State

NoCalls == [usage |-> <<>>, users |-> <<>>, user |-> <<>>, buckets |-> <<>>]

Init ==
    /\ pc = [p \in Passes |-> "idle"]
    /\ up = [p \in Passes |-> 1]
    /\ usageAggr = [p \in Passes |-> EmptyAggr]
    /\ uids = [p \in Passes |-> <<>>]
    /\ idx = [p \in Passes |-> 0]
    /\ ch = [p \in Passes |-> <<>>]
    /\ calls = [p \in Passes |-> NoCalls]

Called(p, field, rec) ==
    calls' = [calls EXCEPT ![p][field] = Append(@, rec)]

\* Collect returns: the deferred functions send the two meta-measurements.
Return(p, sent, upv, duration) ==
    /\ ch' = [ch EXCEPT ![p] = sent \o Deferred(upv, duration)]
    /\ pc' = [pc EXCEPT ![p] = "done"]

\* End of one iteration of the loop over *uids: the next identifier, or the
\* end of Collect.
NextUser(p, sent, duration) ==
    IF idx[p] < Len(uids[p])
    THEN /\ idx' = [idx EXCEPT ![p] = @ + 1]
         /\ ch' = [ch EXCEPT ![p] = sent]
         /\ pc' = [pc EXCEPT ![p] = "getUser"]
    ELSE /\ idx' = idx
         /\ Return(p, sent, up[p], duration)

\* Faulty variant: a failed GetUser ends the walk ("break").
AbortWalk(p, duration) ==
    /\ idx' = idx
    /\ Return(p, ch[p], up[p], duration)

\* "continue" after a failed GetUser
SkipUser(p, duration) == NextUser(p, ch[p], duration)

\* Faulty variant: a failed bucket list ends the walk ("break").
AbortWalkOnBuckets(p, duration) ==
    /\ idx' = idx
    /\ Return(p, ch[p], up[p], duration)

\* "continue" after a failed ListUsersBucketsWithStat
SkipBuckets(p, duration) == NextUser(p, ch[p], duration)

\* ------------------------------------------------------------------------
\* Actions

\* A scrape invokes Collect: up := 1, the usage query is sent.
Collect(p) ==
    /\ pc[p] \in {"idle", "done"}
    /\ pc' = [pc EXCEPT ![p] = "getUsage"]
    /\ up' = [up EXCEPT ![p] = 1]
    /\ usageAggr' = [usageAggr EXCEPT ![p] = EmptyAggr]
    /\ uids' = [uids EXCEPT ![p] = <<>>]
    /\ idx' = [idx EXCEPT ![p] = 0]
    /\ ch' = [ch EXCEPT ![p] = <<>>]
    /\ calls' = [calls EXCEPT ![p] = NoCalls]

\* Faulty variant: no return after a failed usage query; Collect goes on to
\* the user listing with an empty usage.
GetUsageFailedNoReturn(p, in) ==
    /\ pc[p] = "getUsage"
    /\ Called(p, "usage", [ok |-> FALSE, entries |-> <<>>])
    /\ up' = [up EXCEPT ![p] = 0]
    /\ pc' = [pc EXCEPT ![p] = "getUsers"]
    /\ UNCHANGED <<usageAggr, uids, idx, ch>>

GetUsageFailed(p, in) ==
    /\ pc[p] = "getUsage"
    /\ \E d \in DurationsOf(in) :
          /\ Called(p, "usage", [ok |-> FALSE, entries |-> <<>>])
          /\ up' = [up EXCEPT ![p] = 0]
          /\ Return(p, ch[p], 0, d)
    /\ UNCHANGED <<usageAggr, uids, idx>>

GetUsageOk(p, in) ==
    /\ pc[p] = "getUsage"
    /\ \E entries \in UsageOf(in) :
          LET aggr == AggrEntries(MakeUsageAggr(p), entries)
          IN  /\ Called(p, "usage", [ok |-> TRUE, entries |-> entries])
              /\ usageAggr' = [usageAggr EXCEPT ![p] = aggr]
              /\ \E order \in KeyOrders(aggr) :
                    ch' = [ch EXCEPT ![p] = @ \o EmitUsage(aggr, order)]
    /\ pc' = [pc EXCEPT ![p] = "getUsers"]
    /\ UNCHANGED <<up, uids, idx>>

GetUsersFailed(p, in) ==
    /\ pc[p] = "getUsers"
    /\ \E d \in DurationsOf(in) :
          /\ Called(p, "users", [ok |-> FALSE, uids |-> <<>>])
          /\ up' = [up EXCEPT ![p] = 0]
          /\ Return(p, ch[p], 0, d)
    /\ UNCHANGED <<usageAggr, uids, idx>>

GetUsersOk(p, in) ==
    /\ pc[p] = "getUsers"
    /\ \E list \in UidsOf(in), d \in DurationsOf(in) :
          /\ Called(p, "users", [ok |-> TRUE, uids |-> list])
          /\ uids' = [uids EXCEPT ![p] = list]
          /\ IF list = <<>>
             THEN /\ idx' = idx
                  /\ Return(p, ch[p], up[p], d)
             ELSE /\ idx' = [idx EXCEPT ![p] = 1]
                  /\ pc' = [pc EXCEPT ![p] = "getUser"]
                  /\ ch' = ch
    /\ UNCHANGED <<up, usageAggr>>

\* Faulty variant: no continue after a failed GetUser; Collect goes on to
\* the bucket list of that identifier.
GetUserFailedNoContinue(p, in) ==
    /\ pc[p] = "getUser"
    /\ Called(p, "user", [uid |-> uids[p][idx[p]], ok |-> FALSE, user |-> <<>>])
    /\ pc' = [pc EXCEPT ![p] = "listBuckets"]
    /\ UNCHANGED <<up, usageAggr, uids, idx, ch>>

GetUserFailed(p, in) ==
    /\ pc[p] = "getUser"
    /\ \E d \in DurationsOf(in) :
          /\ Called(p, "user", [uid |-> uids[p][idx[p]], ok |-> FALSE, user |-> <<>>])
          /\ SkipUser(p, d)
    /\ UNCHANGED <<up, usageAggr, uids>>

GetUserOk(p, in) ==
    /\ pc[p] = "getUser"
    /\ \E prof \in ProfilesOf(in) :
          LET user == UserRec(uids[p][idx[p]], prof)
          IN  /\ Called(p, "user", [uid |-> uids[p][idx[p]], ok |-> TRUE, user |-> <<user>>])
              /\ ch' = [ch EXCEPT ![p] = @ \o UserMetrics(user)]
    /\ pc' = [pc EXCEPT ![p] = "listBuckets"]
    /\ UNCHANGED <<up, usageAggr, uids, idx>>

ListBucketsFailed(p, in) ==
    /\ pc[p] = "listBuckets"
    /\ \E d \in DurationsOf(in) :
          /\ Called(p, "buckets", [uid |-> uids[p][idx[p]], ok |-> FALSE, buckets |-> <<>>])
          /\ SkipBuckets(p, d)
    /\ UNCHANGED <<up, usageAggr, uids>>

ListBucketsOk(p, in) ==
    /\ pc[p] = "listBuckets"
    /\ \E shapes \in BucketsOf(in), d \in DurationsOf(in) :
          LET buckets == BucketRecs(uids[p][idx[p]], shapes)
          IN  /\ Called(p, "buckets", [uid |-> uids[p][idx[p]], ok |-> TRUE, buckets |-> buckets])
              /\ NextUser(p, ch[p] \o BucketMetrics(buckets), d)
    /\ UNCHANGED <<up, usageAggr, uids>>

Step(p, in) ==
    \/ Collect(p)
    \/ GetUsageFailed(p, in)
    \/ GetUsageOk(p, in)
    \/ GetUsersFailed(p, in)
    \/ GetUsersOk(p, in)
    \/ GetUserFailed(p, in)
    \/ GetUserOk(p, in)
    \/ ListBucketsFailed(p, in)
    \/ ListBucketsOk(p, in)

\* ------------------------------------------------------------------------
\* Specifications

\* One pass at a time, small usage responses, rich user walk.
Next == \E p \in {"p1"} : Step(p, "walk")

Spec == Init /\ [][Next]_vars

\* One pass at a time, rich usage responses, small user walk.
NextUsage == \E p \in {"p1"} : Step(p, "usage")

SpecUsage == Init /\ [][NextUsage]_vars

\* Overlapping and successive passes, small inputs.
NextConc == \E p \in Passes : Step(p, "few")

SpecConc == Init /\ [][NextConc]_vars

\* ------------------------------------------------------------------------
\* Vocabulary of the properties

UsageNames == {OpsName, SuccessfulOpsName, BytesSentName, BytesReceivedName}

UserNames ==
    {UserTotalObjectsName, UserTotalBytesName, UserQuotaEnabledName,
     UserQuotaMaxSizeBytesName, UserQuotaMaxObjectsName, UserBucketQuotaEnabledName,
     UserBucketQuotaMaxSizeBytesName, UserBucketQuotaMaxObjectsName}

BucketGaugeNames == {BucketUsageObjectsName, BucketUsageBytesName}

EntityNames == UserNames \cup BucketGaugeNames

Done(p) == pc[p] = "done"

\* positions of the measurements of a name, or of a set of names, in a pass
At(p, name) == { k \in DOMAIN ch[p] : ch[p][k].name = name }

AtAny(p, names) == { k \in DOMAIN ch[p] : ch[p][k].name \in names }

AtLabelled(p, name, labels) ==
    { k \in DOMAIN ch[p] : ch[p][k].name = name /\ ch[p][k].labels = labels }

UsageOk(p) == \E k \in DOMAIN calls[p].usage : calls[p].usage[k].ok

UsageFailed(p) == \E k \in DOMAIN calls[p].usage : ~calls[p].usage[k].ok

ListingOk(p) == \E k \in DOMAIN calls[p].users : calls[p].users[k].ok

ListingFailed(p) == \E k \in DOMAIN calls[p].users : ~calls[p].users[k].ok

UserCalls(p, uid) == { k \in DOMAIN calls[p].user : calls[p].user[k].uid = uid }

BucketCalls(p, uid) == { k \in DOMAIN calls[p].buckets : calls[p].buckets[k].uid = uid }

\* the pass emitted exactly one health measurement, with value v
HealthIs(p, v) ==
    /\ Cardinality(At(p, UpName)) = 1
    /\ \A k \in At(p, UpName) : ch[p][k].value = v

\* the measurement is user-scoped or bucket-scoped and belongs to uid
OfUser(m, uid) ==
    \/ m.name \in UserNames /\ m.labels[1] = uid
    \/ m.name \in BucketGaugeNames /\ m.labels[2] = uid

\* ------------------------------------------------------------------------
\* C1

\* C1: in every finished pass the health measurement is 0 if and only if the
\* usage query or the user-listing query of that pass failed, and 1
\* otherwise, whatever number of GetUser or bucket-list failures occurred.
C1_HealthIffFatalFailure ==
    \A p \in Passes :
        Done(p) =>
            IF UsageFailed(p) \/ ListingFailed(p) THEN HealthIs(p, 0) ELSE HealthIs(p, 1)

\* a finished pass with a failed GetUser and a failed bucket list, health 1
C1_Witness ==
    \E p \in Passes :
        /\ Done(p)
        /\ \E k \in DOMAIN calls[p].user : ~calls[p].user[k].ok
        /\ \E k \in DOMAIN calls[p].buckets : ~calls[p].buckets[k].ok
        /\ HealthIs(p, 1)

\* ------------------------------------------------------------------------
\* C2

\* C2 as stated: a finished pass whose usage query or user-listing query
\* failed emitted exactly the health measurement 0 and the duration
\* measurement, and nothing else.
C2_OnlyMetaOnFatalFailure ==
    \A p \in Passes :
        (Done(p) /\ (UsageFailed(p) \/ ListingFailed(p))) =>
            /\ Len(ch[p]) = 2
            /\ HealthIs(p, 0)
            /\ Cardinality(At(p, ScrapeDurationSecondsName)) = 1

\* C2 amended: a finished pass whose usage query failed emitted exactly the
\* health measurement 0 and the duration measurement; a finished pass whose
\* user-listing query failed emitted the health measurement 0, the duration
\* measurement, no user or bucket measurement, and besides these only the
\* usage measurements of its (successful) usage query.
C2_FatalFailureOutput ==
    \A p \in Passes :
        /\ (Done(p) /\ UsageFailed(p)) =>
              /\ Len(ch[p]) = 2
              /\ HealthIs(p, 0)
              /\ Cardinality(At(p, ScrapeDurationSecondsName)) = 1
        /\ (Done(p) /\ ListingFailed(p)) =>
              /\ HealthIs(p, 0)
              /\ Cardinality(At(p, ScrapeDurationSecondsName)) = 1
              /\ AtAny(p, EntityNames) = {}
              /\ Len(ch[p]) = 2 + Cardinality(AtAny(p, UsageNames))
              /\ Cardinality(AtAny(p, UsageNames))
                    = 4 * Cardinality(DOMAIN usageAggr[p])

\* a finished pass whose listing failed after usage measurements were sent
C2_Witness ==
    \E p \in Passes :
        /\ Done(p)
        /\ ListingFailed(p)
        /\ AtAny(p, UsageNames) # {}
        /\ HealthIs(p, 0)

\* ------------------------------------------------------------------------
\* C3

\* what the walk emits for the j-th listed identifier, from the responses to
\* the queries about that identifier alone
WalkOutputOf(p, j) ==
    LET uc == calls[p].user[j]
        ok == { k \in BucketCalls(p, uc.uid) : calls[p].buckets[k].ok }
    IN  IF ~uc.ok THEN <<>>
        ELSE UserMetrics(uc.user[1])
             \o (IF ok = {} THEN <<>>
                 ELSE BucketMetrics(calls[p].buckets[CHOOSE k \in ok : TRUE].buckets))

RECURSIVE WalkOutput(_, _)
WalkOutput(p, j) ==
    IF j = 0 THEN <<>> ELSE WalkOutput(p, j - 1) \o WalkOutputOf(p, j)

IsEntity(m) == m.name \in EntityNames

\* C3: in a finished pass whose usage and listing queries succeeded, every
\* listed identifier was queried, an identifier whose GetUser failed has no
\* user or bucket measurement, the user and bucket measurements of the pass
\* are, in listing order, those of the other identifiers (each determined by
\* the responses about that identifier alone), and the health is 1.
C3_PartialFailureIsolation ==
    \A p \in Passes :
        (Done(p) /\ UsageOk(p) /\ ListingOk(p)) =>
            /\ Len(calls[p].user) = Len(uids[p])
            /\ \A j \in DOMAIN uids[p] : calls[p].user[j].uid = uids[p][j]
            /\ \A j \in DOMAIN uids[p] :
                  ~calls[p].user[j].ok =>
                      \A k \in DOMAIN ch[p] : ~OfUser(ch[p][k], uids[p][j])
            /\ SelectSeq(ch[p], IsEntity) = WalkOutput(p, Len(uids[p]))
            /\ HealthIs(p, 1)

\* the first listed identifier failed in GetUser and a later one has
\* measurements in the finished pass
C3_Witness ==
    \E p \in Passes :
        /\ Done(p)
        /\ Len(uids[p]) >= 2
        /\ ~calls[p].user[1].ok
        /\ \E k \in DOMAIN ch[p] : OfUser(ch[p][k], uids[p][2])
        /\ HealthIs(p, 1)

\* ------------------------------------------------------------------------
\* C4

\* C4 as stated: a user whose bucket list failed has no measurement at all
\* in the pass, neither user-scoped nor bucket-scoped.
C4_BucketFailureSkipsUser ==
    \A p \in Passes :
        \A b \in DOMAIN calls[p].buckets :
            ~calls[p].buckets[b].ok =>
                \A k \in DOMAIN ch[p] : ~OfUser(ch[p][k], calls[p].buckets[b].uid)

\* C4 amended: a user whose detail fetch succeeded and whose bucket list
\* failed has the user-scoped measurements of the detail record (totals and
\* quotas, one per present field) and no bucket measurement; the walk
\* continues over the remaining identifiers and the health stays 1.
C4_BucketFailureKeepsUserMetrics ==
    \A p \in Passes :
        \A b \in DOMAIN calls[p].buckets :
            ~calls[p].buckets[b].ok =>
                LET uid == calls[p].buckets[b].uid
                    Mine(m) == OfUser(m, uid)
                IN  /\ \E j \in UserCalls(p, uid) :
                          /\ calls[p].user[j].ok
                          /\ SelectSeq(ch[p], Mine) = UserMetrics(calls[p].user[j].user[1])
                    /\ Cardinality(BucketCalls(p, uid)) = 1
                    /\ Done(p) =>
                          /\ Len(calls[p].user) = Len(uids[p])
                          /\ HealthIs(p, 1)

\* a finished pass in which the first identifier's bucket list failed, its
\* user measurements were sent, and a later identifier was still walked
C4_Witness ==
    \E p \in Passes :
        /\ Done(p)
        /\ Len(uids[p]) >= 2
        /\ \E b \in BucketCalls(p, uids[p][1]) : ~calls[p].buckets[b].ok
        /\ \E k \in DOMAIN ch[p] : OfUser(ch[p][k], uids[p][1])
        /\ \E k \in DOMAIN ch[p] : OfUser(ch[p][k], uids[p][2])
        /\ HealthIs(p, 1)

\* ------------------------------------------------------------------------
\* C5

\* the category records of a usage response, by entry, bucket and category
\* index
Positions(entries) ==
    UNION { UNION { { <<e, b, c>> : c \in DOMAIN entries[e].Buckets[b].Categories } :
                    b \in DOMAIN entries[e].Buckets } :
            e \in DOMAIN entries }

CatAt(entries, x) == entries[x[1]].Buckets[x[2]].Categories[x[3]]

\* the (bucket, owner, category, store) key of a category record
LabelsAt(entries, x) ==
    << IF entries[x[1]].Buckets[x[2]].Bucket = "" THEN "bucket_root"
       ELSE entries[x[1]].Buckets[x[2]].Bucket,
       entries[x[1]].User, CatAt(entries, x).Category, store >>

CounterOf(name, cat) ==
    CASE name = OpsName -> cat.Ops
      [] name = SuccessfulOpsName -> cat.SuccessfulOps
      [] name = BytesSentName -> cat.BytesSent
      [] name = BytesReceivedName -> cat.BytesReceived

RECURSIVE SumCounter(_, _, _)
SumCounter(xs, entries, name) ==
    IF xs = {} THEN 0
    ELSE LET x == CHOOSE y \in xs : TRUE
         IN  CounterOf(name, CatAt(entries, x)) + SumCounter(xs \ {x}, entries, name)

\* C5: after a successful usage query the pass has emitted, for each of the
\* four usage counters, exactly one measurement per distinct key observed in
\* the response and none for any other key, and its value is the sum of that
\* counter over all category records of the response with that key.
C5_UsageConservation ==
    \A p \in Passes :
        UsageOk(p) =>
            LET entries == calls[p].usage[1].entries
                xs == Positions(entries)
                keys == { LabelsAt(entries, x) : x \in xs }
            IN  \A name \in UsageNames :
                    /\ \A k \in At(p, name) : ch[p][k].labels \in keys
                    /\ \A key \in keys :
                          /\ Cardinality(AtLabelled(p, name, key)) = 1
                          /\ \A k \in AtLabelled(p, name, key) :
                                ch[p][k].value
                                  = SumCounter({ x \in xs : LabelsAt(entries, x) = key },
                                               entries, name)

\* two entries for alice, photos, get_obj with ops 3 and 5 and bytes sent
\* 100 and 200 were merged into ops 8 and bytes sent 300
C5_Witness ==
    \E p \in Passes :
        /\ UsageOk(p)
        /\ LET entries == calls[p].usage[1].entries
               key == <<"photos", "alice", "get_obj", store>>
               mine == { x \in Positions(entries) : LabelsAt(entries, x) = key }
           IN  /\ Cardinality(mine) = 2
               /\ \E x, y \in mine :
                     /\ x[1] # y[1]
                     /\ CatAt(entries, x).Ops = 3
                     /\ CatAt(entries, y).Ops = 5
               /\ \E k \in AtLabelled(p, OpsName, key) : ch[p][k].value = 8
               /\ \E k \in AtLabelled(p, BytesSentName, key) : ch[p][k].value = 300

\* ------------------------------------------------------------------------
\* C9

\* C9: after a successful usage query every category record of a bucket
\* record with an empty name is counted in the measurements labelled
\* bucket="bucket_root" of its owner and category, every category record of
\* a named bucket record in those labelled with that name, and no usage
\* measurement carries an empty bucket label.
C9_EmptyBucketIsBucketRoot ==
    \A p \in Passes :
        UsageOk(p) =>
            LET entries == calls[p].usage[1].entries
            IN  /\ \A x \in Positions(entries) :
                      LET name == entries[x[1]].Buckets[x[2]].Bucket
                          labels == << IF name = "" THEN "bucket_root" ELSE name,
                                       entries[x[1]].User,
                                       CatAt(entries, x).Category, store >>
                      IN  \A n \in UsageNames :
                              \E k \in AtLabelled(p, n, labels) :
                                  ch[p][k].value >= CounterOf(n, CatAt(entries, x))
                /\ \A k \in AtAny(p, UsageNames) : ch[p][k].labels[1] # ""

\* a response with an unnamed and a named bucket record, and measurements
\* labelled bucket_root
C9_Witness ==
    \E p \in Passes :
        /\ UsageOk(p)
        /\ LET entries == calls[p].usage[1].entries
           IN  /\ \E x \in Positions(entries) : entries[x[1]].Buckets[x[2]].Bucket = ""
               /\ \E x \in Positions(entries) : entries[x[1]].Buckets[x[2]].Bucket = "photos"
        /\ \E k \in At(p, OpsName) : ch[p][k].labels[1] = "bucket_root"

\* ------------------------------------------------------------------------
\* C6

\* C6 as stated: whatever the upstream outcomes, a finished pass issued
\* exactly one usage query and exactly one user-listing query, and exactly
\* one detail query and one bucket-list query per listed identifier.
C6_AllQueriesOnce ==
    \A p \in Passes :
        Done(p) =>
            /\ Len(calls[p].usage) = 1
            /\ Len(calls[p].users) = 1
            /\ \A j \in DOMAIN uids[p] :
                  /\ Cardinality(UserCalls(p, uids[p][j])) = 1
                  /\ Cardinality(BucketCalls(p, uids[p][j])) = 1

\* C6 amended: no query is ever issued more than once in a pass; a finished
\* pass issued exactly one usage query, exactly one user-listing query if
\* the usage query succeeded and none otherwise, exactly one detail query
\* per listed identifier, and exactly one bucket-list query for each
\* identifier whose detail query succeeded and none for the others.
C6_QueriesIssued ==
    \A p \in Passes :
        /\ Len(calls[p].usage) <= 1
        /\ Len(calls[p].users) <= 1
        /\ \A u \in Users :
              /\ Cardinality(UserCalls(p, u)) <= 1
              /\ Cardinality(BucketCalls(p, u)) <= 1
              /\ UserCalls(p, u) # {} => \E j \in DOMAIN uids[p] : uids[p][j] = u
              /\ BucketCalls(p, u) # {} =>
                    \E k \in UserCalls(p, u) : calls[p].user[k].ok
        /\ Done(p) =>
              /\ Len(calls[p].usage) = 1
              /\ Len(calls[p].users) = (IF UsageOk(p) THEN 1 ELSE 0)
              /\ \A j \in DOMAIN uids[p] :
                    /\ Cardinality(UserCalls(p, uids[p][j])) = 1
                    /\ \A k \in UserCalls(p, uids[p][j]) :
                          Cardinality(BucketCalls(p, uids[p][j]))
                            = (IF calls[p].user[k].ok THEN 1 ELSE 0)

\* a finished pass with an identifier whose detail query failed (no
\* bucket-list query) and an identifier with both queries
C6_Witness ==
    \E p \in Passes :
        /\ Done(p)
        /\ \E j \in DOMAIN uids[p] :
              /\ \E k \in UserCalls(p, uids[p][j]) : ~calls[p].user[k].ok
              /\ BucketCalls(p, uids[p][j]) = {}
        /\ \E j \in DOMAIN uids[p] : BucketCalls(p, uids[p][j]) # {}

\* ------------------------------------------------------------------------
\* C7

\* C7: a finished pass, aborted or not, emitted exactly one health and
\* exactly one duration measurement, as its last two measurements, and every
\* usage measurement before every user or bucket measurement.
C7_EmissionShape ==
    \A p \in Passes :
        Done(p) =>
            /\ Cardinality(At(p, UpName)) = 1
            /\ Cardinality(At(p, ScrapeDurationSecondsName)) = 1
            /\ At(p, UpName) \cup At(p, ScrapeDurationSecondsName)
                  = {Len(ch[p]) - 1, Len(ch[p])}
            /\ \A a \in AtAny(p, UsageNames) :
                  \A b \in AtAny(p, EntityNames) : a < b

\* a finished pass with usage, user and bucket measurements
C7_Witness ==
    \E p \in Passes :
        /\ Done(p)
        /\ AtAny(p, UsageNames) # {}
        /\ AtAny(p, UserNames) # {}
        /\ AtAny(p, BucketGaugeNames) # {}

\* ------------------------------------------------------------------------
\* C8

UserPresent(user) ==
    (UserTotalObjectsName :> (user.Stat.NumObjects # <<>>))
    @@ (UserTotalBytesName :> (user.Stat.Size # <<>>))
    @@ (UserQuotaEnabledName :> (user.UserQuota.Enabled # <<>>))
    @@ (UserQuotaMaxSizeBytesName :> (user.UserQuota.MaxSizeKb # <<>>))
    @@ (UserQuotaMaxObjectsName :> (user.UserQuota.MaxObjects # <<>>))
    @@ (UserBucketQuotaEnabledName :> (user.BucketQuota.Enabled # <<>>))
    @@ (UserBucketQuotaMaxSizeBytesName :> (user.BucketQuota.MaxSizeKb # <<>>))
    @@ (UserBucketQuotaMaxObjectsName :> (user.BucketQuota.MaxObjects # <<>>))

BucketPresent(b) ==
    (BucketUsageObjectsName :> (b.Usage.RgwMain.NumObjects # <<>>))
    @@ (BucketUsageBytesName :> (b.Usage.RgwMain.SizeActual # <<>>))

\* C8: for every user record and every bucket record fetched successfully
\* and every optional field, the pass has emitted exactly one measurement of
\* that field if the field is present, whatever its value, and none if it is
\* absent.
C8_AbsentFieldOmission ==
    \A p \in Passes :
        /\ \A j \in DOMAIN calls[p].user :
              calls[p].user[j].ok =>
                  LET user == calls[p].user[j].user[1]
                  IN  \A n \in UserNames :
                          Cardinality(AtLabelled(p, n, <<user.ID, store>>))
                            = (IF UserPresent(user)[n] THEN 1 ELSE 0)
        /\ \A j \in DOMAIN calls[p].buckets :
              calls[p].buckets[j].ok =>
                  \A i \in DOMAIN calls[p].buckets[j].buckets :
                      LET b == calls[p].buckets[j].buckets[i]
                      IN  \A n \in BucketGaugeNames :
                              Cardinality(AtLabelled(p, n,
                                  <<b.Bucket, b.Owner, "bucket_total", store>>))
                                = (IF BucketPresent(b)[n] THEN 1 ELSE 0)

\* a user record with a present zero object count and a bucket record with
\* an absent object count and a present zero size, with the zero-valued
\* measurements emitted
C8_Witness ==
    \E p \in Passes :
        /\ \E j \in DOMAIN calls[p].user :
              /\ calls[p].user[j].ok
              /\ calls[p].user[j].user[1].Stat.NumObjects = <<0>>
              /\ \E k \in AtLabelled(p, UserTotalObjectsName,
                                     <<calls[p].user[j].uid, store>>) :
                    ch[p][k].value = 0
        /\ \E j \in DOMAIN calls[p].buckets :
              /\ calls[p].buckets[j].ok
              /\ \E i \in DOMAIN calls[p].buckets[j].buckets :
                    LET b == calls[p].buckets[j].buckets[i]
                    IN  /\ b.Usage.RgwMain.NumObjects = <<>>
                        /\ b.Usage.RgwMain.SizeActual = <<0>>
                        /\ \E k \in AtLabelled(p, BucketUsageBytesName,
                                  <<b.Bucket, b.Owner, "bucket_total", store>>) :
                              ch[p][k].value = 0

\* ------------------------------------------------------------------------
\* C10

\* the number of times a pass emitted a measurement
Times(p, m) == Cardinality({ k \in DOMAIN ch[p] : ch[p][k] = m })

\* the measurements of a pass other than the wall-clock duration
Emitted(p) ==
    { ch[p][k] : k \in DOMAIN ch[p] \ At(p, ScrapeDurationSecondsName) }

\* C10: passes are independent.  Two finished passes of the same collector,
\* overlapping or one after the other, that received the same upstream
\* responses emitted the same measurements the same number of times (the
\* duration, a wall-clock reading, aside); and a pass whose own usage query
\* failed emitted no usage measurement, whatever other passes emitted.
C10_PassesIndependent ==
    \A p \in Passes :
        /\ (Done(p) /\ UsageFailed(p)) => AtAny(p, UsageNames) = {}
        /\ \A q \in Passes \ {p} :
              (Done(p) /\ Done(q) /\ calls[p] = calls[q]) =>
                  /\ Len(ch[p]) = Len(ch[q])
                  /\ \A m \in Emitted(p) \cup Emitted(q) : Times(p, m) = Times(q, m)

\* two finished passes that received the same responses and emitted usage,
\* user and bucket measurements
C10_Witness ==
    \E p \in Passes :
        \E q \in Passes \ {p} :
            /\ Done(p)
            /\ Done(q)
            /\ calls[p] = calls[q]
            /\ AtAny(p, UsageNames) # {}
            /\ AtAny(p, EntityNames) # {}

====
